---- MODULE Spec2Model ----
(***************************************************************************)
(* Model of sql-migrate's planner and executor (migrate.go).               *)
(*                                                                         *)
(* A migration id is a Go string; it is modelled as a sequence of digits   *)
(* and compared as Go compares strings (bytewise, a proper prefix first).  *)
(* The empty sequence is the empty string, the zero MigrationRecord.Id.    *)
(*                                                                         *)
(* The datastore is a committed state (the gorp_migrations table and the   *)
(* statements the target schema reflects) and, per caller, the work of     *)
(* the transaction the caller has open.                                    *)
(***************************************************************************)
EXTENDS Integers, Sequences, FiniteSets, TLC

VARIABLES
    callers,      \* the processes that call ExecMax in this run
    source,       \* MemoryMigrationSource.Migrations, the slice that
                  \* FindMigrations returns and sort.Sort sorts in place
    tableExists,  \* whether gorp_migrations exists (committed)
    records,      \* the ids of the rows of gorp_migrations (committed)
    schema,       \* per migration id, the statements the datastore reflects:
                  \* those of the last committed transaction for that id
    pc,           \* where each caller is in ExecMax
    call,         \* the arguments dir and max of each caller's invocation
    plan,         \* migrations, the result of PlanMigration
    pos,          \* the position in plan of the range loop (from 1)
    applied,      \* the local applied, the count ExecMax returns
    err,          \* the error ExecMax returns, "none" for nil
    tx,           \* trans, the transaction of the current migration: its
                  \* state, the statements executed in it and its ledger
                  \* write; only a committed one changes the datastore
    begun,        \* the positions of plan for which dbMap.Begin was called
    start,        \* the source and the committed state when the invocation
                  \* started; the committed state is taken again when the
                  \* invocation reads the newest record
    prev          \* the previous invocation of the caller, when it returned
                  \* no error: its direction, whether max capped it, and
                  \* the rows it started from

vars == <<callers, source, tableExists, records, schema, pc, call, plan, pos,
          applied, err, tx, begun, start, prev>>

datastore == <<tableExists, records, schema>>

\* ------------------------------------------------------------------------
\* Bounds of the model
\* ------------------------------------------------------------------------

\* Largest number of definitions a migration source holds.
MaxDefs == 3

\* Largest value of ExecMax's max argument that is tried (the smallest is -1).
MaxCap == 2

\* ------------------------------------------------------------------------
\* Inputs
\* ------------------------------------------------------------------------

\* The ids a source may use: "1", "12", "2", "21".
IdPool == { <<1>>, <<1, 2>>, <<2>>, <<2, 1>> }

\* The processes that may call ExecMax against the datastore; callers is
\* the set of those that do in a run.
Procs == { 1, 2 }

\* MigrationDirection: Up and Down. (Any other value makes ToApply panic.)
Directions == { "Up", "Down" }

\* type Migration struct: the definition a source holds under an id.
MigrationOf(id) ==
    CASE id = <<1>>    -> [Id |-> id, Up |-> <<"u1a">>, Down |-> <<"d1a", "d1b">>]
      [] id = <<1, 2>> -> [Id |-> id, Up |-> <<"u12a", "u12b">>, Down |-> <<"d12a">>]
      [] id = <<2>>    -> [Id |-> id, Up |-> <<"u2a">>, Down |-> << >>]
      [] OTHER         -> [Id |-> id, Up |-> << >>, Down |-> <<"d21a">>]

\* The sequences of distinct elements of S of length at most n.
DistinctSeqs(S, n) ==
    UNION { { s \in [1..k -> S] : \A i, j \in 1..k : i # j => s[i] # s[j] }
            : k \in 0..n }

\* What a MemoryMigrationSource may hold: definitions with unique ids, in
\* any order.
Sources == { [i \in 1..Len(ids) |-> MigrationOf(ids[i])]
             : ids \in DistinctSeqs(IdPool, MaxDefs) }

\* The values of max that are tried.
Caps == -1..MaxCap

\* ------------------------------------------------------------------------
\* Planner
\* ------------------------------------------------------------------------

\* Go's < on strings: bytewise, a proper prefix is smaller.
RECURSIVE StringLess(_, _)
StringLess(a, b) ==
    IF b = << >> THEN FALSE
    ELSE IF a = << >> THEN TRUE
    ELSE IF Head(a) # Head(b) THEN Head(a) < Head(b)
    ELSE StringLess(Tail(a), Tail(b))

\* Go's <= on strings.
StringLeq(a, b) == a = b \/ StringLess(a, b)

\* byId.Less
Less(mi, mj) == StringLess(mi.Id, mj.Id)

\* Insert m in the sorted sequence s, before the first element it is Less than.
RECURSIVE InsertById(_, _)
InsertById(s, m) ==
    IF s = << >> THEN <<m>>
    ELSE IF Less(m, Head(s)) THEN <<m>> \o s
    ELSE <<Head(s)>> \o InsertById(Tail(s), m)

\* sort.Sort(byId(migrations))
RECURSIVE SortById(_)
SortById(migrations) ==
    IF migrations = << >> THEN << >>
    ELSE InsertById(SortById(Tail(migrations)), Head(migrations))

\* Cursor as it would be with < in place of <= in the loop condition.
RECURSIVE CursorStrict(_, _, _)
CursorStrict(migrations, current, index) ==
    IF index < Len(migrations) - 1 /\ StringLess(migrations[index + 2].Id, current)
    THEN CursorStrict(migrations, current, index + 1)
    ELSE index

\* The loop of ToApply: the index (from 0, -1 for none) the loop ends with.
RECURSIVE Cursor(_, _, _)
Cursor(migrations, current, index) ==
    IF index < Len(migrations) - 1 /\ StringLeq(migrations[index + 2].Id, current)
    THEN Cursor(migrations, current, index + 1)
    ELSE index

\* ToApply as it would be without the reversal of the Down list.
ToApplyUnreversed(migrations, current, direction) ==
    LET index == Cursor(migrations, current, -1)
    IN IF direction = "Up"
       THEN SubSeq(migrations, index + 2, Len(migrations))
       ELSE SubSeq(migrations, 1, index + 1)

\* ToApply: filter a sorted slice of migrations into the ones to apply.
ToApply(migrations, current, direction) ==
    LET index == Cursor(migrations, current, -1)
    IN IF direction = "Up"
       THEN SubSeq(migrations, index + 2, Len(migrations))
       ELSE IF index = -1
            THEN << >>
            ELSE [j \in 1..(index + 1) |-> migrations[index + 2 - j]]

\* The greatest element of a non-empty set of ids.
MaxId(ids) == CHOOSE x \in ids : \A y \in ids : StringLeq(y, x)

\* NewestRecordId as it would be with ORDER BY id ASC: the oldest record.
OldestRecordId(rows) ==
    IF rows = {} THEN << >>
    ELSE CHOOSE x \in rows : \A y \in rows : StringLeq(x, y)

\* SELECT * FROM gorp_migrations ORDER BY id DESC LIMIT 1, read into a zero
\* MigrationRecord: the newest record's id, "" when there are no rows.
NewestRecordId(rows) == IF rows = {} THEN << >> ELSE MaxId(rows)

\* PlanOf as it would be with max >= 0 in place of max > 0.
PlanOfCapZero(found, rows, dir, max) ==
    LET migrations == SortById(found)
        toApply == ToApply(migrations, NewestRecordId(rows), dir)
        toApplyCount == IF max >= 0 /\ max < Len(toApply) THEN max ELSE Len(toApply)
    IN [k \in 1..toApplyCount |->
          [Migration |-> toApply[k],
           Queries |-> IF dir = "Up" THEN toApply[k].Up ELSE toApply[k].Down]]

\* The part of PlanMigration after the table and the source are read
\* (lines 254-284).
PlanOf(found, rows, dir, max) ==
    LET migrations == SortById(found)
        toApply == ToApply(migrations, NewestRecordId(rows), dir)
        toApplyCount == IF max > 0 /\ max < Len(toApply) THEN max ELSE Len(toApply)
    IN [k \in 1..toApplyCount |->
          [Migration |-> toApply[k],
           Queries |-> IF dir = "Up" THEN toApply[k].Up ELSE toApply[k].Down]]

\* ------------------------------------------------------------------------
\* Executor
\* ------------------------------------------------------------------------

\* No transaction: the value of trans before dbMap.Begin.
NoTx == [state |-> "none", done |-> << >>, write |-> "none"]

\* The schema of a datastore no migration has touched.
NoSchema == [id \in IdPool |-> [dir |-> "None", done |-> << >>]]

\* No previous invocation.
NoCall == [dir |-> "None", capped |-> FALSE, records |-> {}]

\* No invocation yet.
NoStart == [records |-> {}, schema |-> NoSchema, source |-> << >>]

\* The planned migration of the current iteration of the range loop.
Current(p) == plan[p][pos[p]]

Init ==
    /\ callers = { 1 }
    /\ source \in Sources
    /\ tableExists = FALSE
    /\ records = {}
    /\ schema = NoSchema
    /\ pc = [p \in Procs |-> "idle"]
    /\ call = [p \in Procs |-> [dir |-> "Up", max |-> 0]]
    /\ plan = [p \in Procs |-> << >>]
    /\ pos = [p \in Procs |-> 1]
    /\ applied = [p \in Procs |-> 0]
    /\ err = [p \in Procs |-> "none"]
    /\ tx = [p \in Procs |-> NoTx]
    /\ begun = [p \in Procs |-> {}]
    /\ start = [p \in Procs |-> NoStart]
    /\ prev = [p \in Procs |-> NoCall]

\* What an invocation of ExecMax starts from: its arguments, and the
\* bookkeeping of the invocation that returned before it. The locals of
\* that invocation are gone: a transaction it left open stays open in the
\* datastore, where nothing can commit it any more.
Enter(p, dir, max) ==
    /\ pc[p] \in { "idle", "done" }
    /\ call' = [call EXCEPT ![p] = [dir |-> dir, max |-> max]]
    /\ prev' = [prev EXCEPT ![p] =
                  IF pc[p] = "done" /\ err[p] = "none"
                  THEN [dir |-> call[p].dir, capped |-> call[p].max > 0,
                        records |-> start[p].records]
                  ELSE NoCall]
    /\ start' = [start EXCEPT ![p] = [records |-> records, schema |-> schema,
                                      source |-> source]]
    /\ applied' = [applied EXCEPT ![p] = 0]
    /\ pos' = [pos EXCEPT ![p] = 1]
    /\ tx' = [tx EXCEPT ![p] = NoTx]
    /\ begun' = [begun EXCEPT ![p] = {}]

\* ExecMax, lines 185-188, with PlanMigration returning an error before it
\* has changed anything: getMigrationDbMap does not know the dialect (lines
\* 238-241) or CreateTablesIfNotExists fails (lines 244-247). ExecMax
\* returns 0 and the error. max is not read before these returns (its first
\* use is line 267): the invocation is drawn as Exec makes it, with max 0.
PlanMigrationFails(p, dir) ==
    /\ Enter(p, dir, 0)
    /\ plan' = [plan EXCEPT ![p] = << >>]
    /\ err' = [err EXCEPT ![p] = "plan"]
    /\ pc' = [pc EXCEPT ![p] = "done"]
    /\ UNCHANGED <<callers, source, datastore>>

\* CreateTablesIfNotExists as it would be with the table dropped and
\* created anew.
CreateTablesRecreates(p, dir, max) ==
    /\ Enter(p, dir, max)
    /\ tableExists' = TRUE
    /\ records' = {}
    /\ plan' = [plan EXCEPT ![p] = << >>]
    /\ err' = [err EXCEPT ![p] = "none"]
    /\ pc' = [pc EXCEPT ![p] = "find"]
    /\ UNCHANGED <<callers, source, schema>>

\* CreateTablesIfNotExists as it would be under a lock held for the whole
\* of ExecMax: it waits while another caller is inside ExecMax.
CreateTablesLocked(p, dir, max) ==
    /\ \A q \in callers \ { p } : pc[q] \in { "idle", "done" }
    /\ Enter(p, dir, max)
    /\ tableExists' = TRUE
    /\ plan' = [plan EXCEPT ![p] = << >>]
    /\ err' = [err EXCEPT ![p] = "none"]
    /\ pc' = [pc EXCEPT ![p] = "find"]
    /\ UNCHANGED <<callers, source, records, schema>>

\* ExecMax, line 185, and PlanMigration, lines 238-247: the dialect is
\* known and CreateTablesIfNotExists succeeds: the table is created if it
\* is missing. PlanMigration has no plan yet.
CreateTablesIfNotExists(p, dir, max) ==
    /\ Enter(p, dir, max)
    /\ tableExists' = TRUE
    /\ plan' = [plan EXCEPT ![p] = << >>]
    /\ err' = [err EXCEPT ![p] = "none"]
    /\ pc' = [pc EXCEPT ![p] = "find"]
    /\ UNCHANGED <<callers, source, records, schema>>

\* PlanMigration, lines 249-255: FindMigrations returns the slice of the
\* source (line 67) and sort.Sort sorts it in place: the source holds its
\* definitions in ascending order of id from here on.
FindMigrations(p) ==
    /\ pc[p] = "find"
    /\ source' = SortById(source)
    /\ pc' = [pc EXCEPT ![p] = "select"]
    /\ UNCHANGED <<callers, datastore, call, plan, pos, applied, err, tx,
                   begun, start, prev>>

\* PlanMigration, lines 249-252: FindMigrations fails (a source read from
\* files or assets); nothing is sorted. ExecMax returns 0 and the error.
FindMigrationsFails(p) ==
    /\ pc[p] = "find"
    /\ err' = [err EXCEPT ![p] = "plan"]
    /\ pc' = [pc EXCEPT ![p] = "done"]
    /\ UNCHANGED <<callers, source, datastore, call, plan, pos, applied, tx,
                   begun, start, prev>>

\* PlanMigration, lines 257-284: SelectOne reads the newest record, ToApply
\* filters the sorted definitions and the plan is made, max applied.
SelectOne(p) ==
    /\ pc[p] = "select"
    /\ start' = [start EXCEPT ![p].records = records, ![p].schema = schema]
    /\ plan' = [plan EXCEPT ![p] =
                  PlanOf(source, records, call[p].dir, call[p].max)]
    /\ pc' = [pc EXCEPT ![p] = "loop"]
    /\ UNCHANGED <<callers, source, datastore, call, pos, applied, err, tx,
                   begun, prev>>

\* PlanMigration, lines 258-261: SelectOne fails with an error other than
\* sql.ErrNoRows. ExecMax returns 0 and the error.
SelectOneFails(p) ==
    /\ pc[p] = "select"
    /\ err' = [err EXCEPT ![p] = "plan"]
    /\ pc' = [pc EXCEPT ![p] = "done"]
    /\ UNCHANGED <<callers, source, datastore, call, plan, pos, applied, tx,
                   begun, start, prev>>

\* Line 233: the range loop is over, ExecMax returns applied and nil.
Return(p) ==
    /\ pc[p] = "loop"
    /\ pos[p] > Len(plan[p])
    /\ pc' = [pc EXCEPT ![p] = "done"]
    /\ UNCHANGED <<callers, source, datastore, call, plan, pos, applied, err,
                   tx, begun, start, prev>>

\* Line 193: dbMap.Begin succeeds.
Begin(p) ==
    /\ pc[p] = "loop"
    /\ pos[p] <= Len(plan[p])
    /\ tx' = [tx EXCEPT ![p] = [state |-> "open", done |-> << >>, write |-> "none"]]
    /\ begun' = [begun EXCEPT ![p] = @ \cup { pos[p] }]
    /\ pc' = [pc EXCEPT ![p] = "stmt"]
    /\ UNCHANGED <<callers, source, datastore, call, plan, pos, applied, err,
                   start, prev>>

\* BeginFails as it would be with continue in place of return: the migration
\* is skipped and the loop goes on to the next one.
BeginFailsContinues(p) ==
    /\ pc[p] = "loop"
    /\ pos[p] <= Len(plan[p])
    /\ begun' = [begun EXCEPT ![p] = @ \cup { pos[p] }]
    /\ err' = [err EXCEPT ![p] = "begin"]
    /\ pos' = [pos EXCEPT ![p] = @ + 1]
    /\ UNCHANGED <<callers, source, datastore, pc, call, plan, applied, tx,
                   start, prev>>

\* Lines 193-196: dbMap.Begin fails, ExecMax returns applied and the error.
BeginFails(p) ==
    /\ pc[p] = "loop"
    /\ pos[p] <= Len(plan[p])
    /\ begun' = [begun EXCEPT ![p] = @ \cup { pos[p] }]
    /\ err' = [err EXCEPT ![p] = "begin"]
    /\ pc' = [pc EXCEPT ![p] = "done"]
    /\ UNCHANGED <<callers, source, datastore, call, plan, pos, applied, tx,
                   start, prev>>

\* ExecStmt as it would be with the statement run on dbMap instead of trans:
\* its effect is committed at once.
ExecStmtAutocommit(p) ==
    /\ pc[p] = "stmt"
    /\ Len(tx[p].done) < Len(Current(p).Queries)
    /\ tx' = [tx EXCEPT ![p].done =
                Append(@, Current(p).Queries[Len(tx[p].done) + 1])]
    /\ schema' = [schema EXCEPT ![Current(p).Migration.Id] =
                    [dir |-> call[p].dir, done |-> tx'[p].done]]
    /\ UNCHANGED <<callers, source, tableExists, records, pc, call, plan, pos,
                   applied, err, begun, start, prev>>

\* Lines 198-199: trans.Exec(stmt) succeeds for the next statement of
\* migration.Queries; its effect is part of the open transaction.
ExecStmt(p) ==
    /\ pc[p] = "stmt"
    /\ Len(tx[p].done) < Len(Current(p).Queries)
    /\ tx' = [tx EXCEPT ![p].done =
                Append(@, Current(p).Queries[Len(tx[p].done) + 1])]
    /\ UNCHANGED <<callers, source, datastore, pc, call, plan, pos, applied,
                   err, begun, start, prev>>

\* ExecStmtFails as it would be with continue in place of return: the
\* transaction is rolled back and the loop goes on to the next migration.
ExecStmtFailsContinues(p) ==
    /\ pc[p] = "stmt"
    /\ Len(tx[p].done) < Len(Current(p).Queries)
    /\ tx' = [tx EXCEPT ![p].state = "rolledback"]
    /\ err' = [err EXCEPT ![p] = "stmt"]
    /\ pos' = [pos EXCEPT ![p] = @ + 1]
    /\ pc' = [pc EXCEPT ![p] = "loop"]
    /\ UNCHANGED <<callers, source, datastore, call, plan, applied, begun,
                   start, prev>>

\* Lines 199-203: trans.Exec(stmt) fails; the transaction is rolled back and
\* ExecMax returns applied and the error.
ExecStmtFails(p) ==
    /\ pc[p] = "stmt"
    /\ Len(tx[p].done) < Len(Current(p).Queries)
    /\ tx' = [tx EXCEPT ![p].state = "rolledback"]
    /\ err' = [err EXCEPT ![p] = "stmt"]
    /\ pc' = [pc EXCEPT ![p] = "done"]
    /\ UNCHANGED <<callers, source, datastore, call, plan, pos, applied,
                   begun, start, prev>>

\* Insert as it would be with the record inserted through dbMap instead of
\* trans: the row is committed at once, whatever becomes of the transaction.
InsertOutsideTx(p) ==
    /\ pc[p] = "stmt"
    /\ Len(tx[p].done) = Len(Current(p).Queries)
    /\ call[p].dir = "Up"
    /\ Current(p).Migration.Id \notin records
    /\ records' = records \cup { Current(p).Migration.Id }
    /\ pc' = [pc EXCEPT ![p] = "commit"]
    /\ UNCHANGED <<callers, source, tableExists, schema, call, plan, pos,
                   applied, err, tx, begun, start, prev>>

\* Another caller's open transaction holds an insert of the id that is not
\* committed yet.
PendingInsert(p, id) ==
    \E q \in callers \ { p } :
        /\ tx[q].state = "open"
        /\ tx[q].write = "insert"
        /\ Current(q).Migration.Id = id

\* Lines 206-210: trans.Insert of the MigrationRecord succeeds. The id is the
\* table's key (line 334): an id the table holds cannot be inserted, and an
\* insert of an id that another open transaction has inserted waits for
\* that transaction to end. The AppliedAt column (time.Now()) is not read
\* by the code and is left out.
Insert(p) ==
    /\ pc[p] = "stmt"
    /\ Len(tx[p].done) = Len(Current(p).Queries)
    /\ call[p].dir = "Up"
    /\ Current(p).Migration.Id \notin records
    /\ ~PendingInsert(p, Current(p).Migration.Id)
    /\ tx' = [tx EXCEPT ![p].write = "insert"]
    /\ pc' = [pc EXCEPT ![p] = "commit"]
    /\ UNCHANGED <<callers, source, datastore, call, plan, pos, applied, err,
                   begun, start, prev>>

\* Lines 214-217: trans.Delete of the MigrationRecord succeeds (it does so
\* too when no row has the id).
Delete(p) ==
    /\ pc[p] = "stmt"
    /\ Len(tx[p].done) = Len(Current(p).Queries)
    /\ call[p].dir = "Down"
    /\ tx' = [tx EXCEPT ![p].write = "delete"]
    /\ pc' = [pc EXCEPT ![p] = "commit"]
    /\ UNCHANGED <<callers, source, datastore, call, plan, pos, applied, err,
                   begun, start, prev>>

\* Lines 211-213 and 218-220: trans.Insert or trans.Delete fails; ExecMax
\* returns applied and the error, and leaves trans as it is.
LedgerWriteFails(p) ==
    /\ pc[p] = "stmt"
    /\ Len(tx[p].done) = Len(Current(p).Queries)
    /\ err' = [err EXCEPT ![p] = "ledger"]
    /\ pc' = [pc EXCEPT ![p] = "done"]
    /\ UNCHANGED <<callers, source, datastore, call, plan, pos, applied, tx,
                   begun, start, prev>>

\* Written as it would be with the Down branch inserting the record too.
WrittenInsertOnly(rows, write, id) ==
    IF write = "none" THEN rows ELSE rows \cup { id }

\* The rows of gorp_migrations once the write of a transaction is committed.
Written(rows, write, id) ==
    CASE write = "insert" -> rows \cup { id }
      [] write = "delete" -> rows \ { id }
      [] OTHER            -> rows

\* Commit as it would be with applied counting the rows written: a delete
\* that removed no row is committed but not counted.
CommitCountsRows(p) ==
    /\ pc[p] = "commit"
    /\ records' = Written(records, tx[p].write, Current(p).Migration.Id)
    /\ schema' = [schema EXCEPT ![Current(p).Migration.Id] =
                    [dir |-> call[p].dir, done |-> tx[p].done]]
    /\ tx' = [tx EXCEPT ![p].state = "committed"]
    /\ applied' = [applied EXCEPT ![p] = IF records' # records THEN @ + 1 ELSE @]
    /\ pos' = [pos EXCEPT ![p] = @ + 1]
    /\ pc' = [pc EXCEPT ![p] = "loop"]
    /\ UNCHANGED <<callers, source, tableExists, call, plan, err, begun,
                   start, prev>>

\* Lines 225-230: trans.Commit succeeds: the statements and the write of the
\* transaction become the committed state, and applied is incremented.
Commit(p) ==
    /\ pc[p] = "commit"
    /\ records' = Written(records, tx[p].write, Current(p).Migration.Id)
    /\ schema' = [schema EXCEPT ![Current(p).Migration.Id] =
                    [dir |-> call[p].dir, done |-> tx[p].done]]
    /\ tx' = [tx EXCEPT ![p].state = "committed"]
    /\ applied' = [applied EXCEPT ![p] = @ + 1]
    /\ pos' = [pos EXCEPT ![p] = @ + 1]
    /\ pc' = [pc EXCEPT ![p] = "loop"]
    /\ UNCHANGED <<callers, source, tableExists, call, plan, err, begun,
                   start, prev>>

\* CommitFails as it would be with applied incremented before the commit.
CommitFailsCounted(p) ==
    /\ pc[p] = "commit"
    /\ tx' = [tx EXCEPT ![p].state = "failed"]
    /\ applied' = [applied EXCEPT ![p] = @ + 1]
    /\ err' = [err EXCEPT ![p] = "commit"]
    /\ pc' = [pc EXCEPT ![p] = "done"]
    /\ UNCHANGED <<callers, source, datastore, call, plan, pos, begun, start,
                   prev>>

\* CommitFails as it would be with continue in place of return: the loop
\* goes on to the next migration and the error is returned at the end.
CommitFailsContinues(p) ==
    /\ pc[p] = "commit"
    /\ tx' = [tx EXCEPT ![p].state = "failed"]
    /\ err' = [err EXCEPT ![p] = "commit"]
    /\ pos' = [pos EXCEPT ![p] = @ + 1]
    /\ pc' = [pc EXCEPT ![p] = "loop"]
    /\ UNCHANGED <<callers, source, datastore, call, plan, applied, begun,
                   start, prev>>

\* Lines 225-228: trans.Commit fails: nothing of the transaction is
\* committed, ExecMax returns applied and the error.
CommitFails(p) ==
    /\ pc[p] = "commit"
    /\ tx' = [tx EXCEPT ![p].state = "failed"]
    /\ err' = [err EXCEPT ![p] = "commit"]
    /\ pc' = [pc EXCEPT ![p] = "done"]
    /\ UNCHANGED <<callers, source, datastore, call, plan, pos, applied,
                   begun, start, prev>>

Next ==
    \/ \E p \in callers, dir \in Directions, max \in Caps :
          CreateTablesIfNotExists(p, dir, max)
    \/ \E p \in callers, dir \in Directions : PlanMigrationFails(p, dir)
    \/ \E p \in callers : FindMigrations(p)
    \/ \E p \in callers : FindMigrationsFails(p)
    \/ \E p \in callers : SelectOne(p)
    \/ \E p \in callers : SelectOneFails(p)
    \/ \E p \in callers : Return(p)
    \/ \E p \in callers : Begin(p)
    \/ \E p \in callers : BeginFails(p)
    \/ \E p \in callers : ExecStmt(p)
    \/ \E p \in callers : ExecStmtFails(p)
    \/ \E p \in callers : Insert(p)
    \/ \E p \in callers : Delete(p)
    \/ \E p \in callers : LedgerWriteFails(p)
    \/ \E p \in callers : Commit(p)
    \/ \E p \in callers : CommitFails(p)

\* The schema of a datastore in which the up statements of the migrations
\* of rows are committed.
SchemaOf(rows) ==
    [id \in IdPool |->
        IF id \in rows THEN [dir |-> "Up", done |-> MigrationOf(id).Up]
        ELSE [dir |-> "None", done |-> << >>]]

\* The sources that hold their definitions oldest first. sort.Sort swaps
\* nothing in such a slice: callers that share the source only read it.
SourcesOldestFirst ==
    { s \in Sources : \A i \in 1..(Len(s) - 1) : Less(s[i], s[i + 1]) }

\* The sources that hold their definitions newest first: PlanMigration has
\* to sort them.
SourcesNewestFirst ==
    { s \in Sources : \A i \in 1..(Len(s) - 1) : Less(s[i + 1], s[i]) }

\* A datastore earlier runs left with any set of records: runs over another
\* set of definitions (definitions added or removed since) leave records
\* with gaps and records that match no definition of the source.
InitAny ==
    /\ callers = { 1 }
    /\ source \in SourcesNewestFirst
    /\ records \in SUBSET IdPool
    /\ tableExists = (records # {})
    /\ schema = SchemaOf(records)
    /\ pc = [p \in Procs |-> "idle"]
    /\ call = [p \in Procs |-> [dir |-> "Up", max |-> 0]]
    /\ plan = [p \in Procs |-> << >>]
    /\ pos = [p \in Procs |-> 1]
    /\ applied = [p \in Procs |-> 0]
    /\ err = [p \in Procs |-> "none"]
    /\ tx = [p \in Procs |-> NoTx]
    /\ begun = [p \in Procs |-> {}]
    /\ start = [p \in Procs |-> NoStart]
    /\ prev = [p \in Procs |-> NoCall]

Spec == Init /\ [][Next]_vars

\* Two callers against one datastore, empty at the start. They share a
\* source that is in ascending order already: the sort.Sort of one caller
\* writes nothing the other reads.
InitConc ==
    /\ callers = Procs
    /\ source \in SourcesOldestFirst
    /\ tableExists = FALSE
    /\ records = {}
    /\ schema = NoSchema
    /\ pc = [p \in Procs |-> "idle"]
    /\ call = [p \in Procs |-> [dir |-> "Up", max |-> 0]]
    /\ plan = [p \in Procs |-> << >>]
    /\ pos = [p \in Procs |-> 1]
    /\ applied = [p \in Procs |-> 0]
    /\ err = [p \in Procs |-> "none"]
    /\ tx = [p \in Procs |-> NoTx]
    /\ begun = [p \in Procs |-> {}]
    /\ start = [p \in Procs |-> NoStart]
    /\ prev = [p \in Procs |-> NoCall]

\* Each caller invokes ExecMax(Up) once; the steps of the two invocations
\* interleave in any order.
NextConc ==
    \/ \E p \in callers, max \in Caps :
          pc[p] = "idle" /\ CreateTablesIfNotExists(p, "Up", max)
    \/ \E p \in callers : pc[p] = "idle" /\ PlanMigrationFails(p, "Up")
    \/ \E p \in callers : FindMigrations(p)
    \/ \E p \in callers : FindMigrationsFails(p)
    \/ \E p \in callers : SelectOne(p)
    \/ \E p \in callers : SelectOneFails(p)
    \/ \E p \in callers : Return(p)
    \/ \E p \in callers : Begin(p)
    \/ \E p \in callers : BeginFails(p)
    \/ \E p \in callers : ExecStmt(p)
    \/ \E p \in callers : ExecStmtFails(p)
    \/ \E p \in callers : Insert(p)
    \/ \E p \in callers : LedgerWriteFails(p)
    \/ \E p \in callers : Commit(p)
    \/ \E p \in callers : CommitFails(p)

\* Two ExecMax(Up) invocations running interleaved against one datastore.
SpecConc == InitConc /\ [][NextConc]_vars

\* ExecMax called by one caller on a datastore that holds any records.
SpecAny == InitAny /\ [][Next]_vars

\* ------------------------------------------------------------------------
\* Properties
\* ------------------------------------------------------------------------

\* The ids of the planned migrations at positions 1..n of a plan.
PlannedIds(pl, n) == { pl[i].Migration.Id : i \in 1..n }

\* The ids of the definitions of the source.
SourceIds == { source[i].Id : i \in 1..Len(source) }

\* C1: per-migration atomicity. When ExecMax has returned, with nil or with
\* any error, every planned migration is in one of two committed states:
\* all its statements and its ledger update, or none of its statements and
\* no ledger change (the state the invocation started from).
PerMigrationAtomicity ==
    \A p \in callers :
        pc[p] = "done" =>
            \A i \in 1..Len(plan[p]) :
                LET id == plan[p][i].Migration.Id
                IN \/ /\ schema[id] = [dir |-> call[p].dir,
                                       done |-> plan[p][i].Queries]
                      /\ (id \in records) = (call[p].dir = "Up")
                      /\ (id \in records) # (id \in start[p].records)
                   \/ /\ schema[id] = start[p].schema[id]
                      /\ (id \in records) = (id \in start[p].records)

\* C1 witness: ExecMax returned the error of a ledger write after it
\* committed a migration; the statements of the next one ran in a
\* transaction that was never committed, and others were not attempted.
AtomicityWitness ==
    \E p \in callers :
        /\ pc[p] = "done"
        /\ err[p] = "ledger"
        /\ applied[p] = 1
        /\ Len(plan[p]) = 3
        /\ Len(tx[p].done) = 2

\* C2 (as claimed): when the ledger write of a migration fails, ExecMax rolls
\* the transaction back before it returns, so that no transaction is open
\* when ExecMax returns.
NoOpenTransactionOnReturn ==
    \A p \in callers :
        pc[p] = "done" => tx[p].state # "open"

\* C3: failure isolation. When ExecMax(Up) returns because a statement of
\* the migration at position k failed, the transaction of that migration is
\* rolled back, Begin was called for positions 1..k and no other, the count
\* is k-1, the ledger gained exactly the ids at positions 1..k-1, and the
\* schema reflects the up statements of those and nothing of the others.
FailureIsolation ==
    \A p \in callers :
        (pc[p] = "done" /\ call[p].dir = "Up" /\ err[p] = "stmt") =>
            LET k == pos[p]
            IN /\ k \in 1..Len(plan[p])
               /\ tx[p].state = "rolledback"
               /\ begun[p] = 1..k
               /\ applied[p] = k - 1
               /\ start[p].records \cap PlannedIds(plan[p], Len(plan[p])) = {}
               /\ records = start[p].records \cup PlannedIds(plan[p], k - 1)
               /\ \A i \in 1..(k - 1) :
                     schema[plan[p][i].Migration.Id] =
                        [dir |-> "Up", done |-> plan[p][i].Migration.Up]
               /\ \A i \in k..Len(plan[p]) :
                     schema[plan[p][i].Migration.Id] =
                        start[p].schema[plan[p][i].Migration.Id]

\* C3 witness: the spec's scenario: of three planned migrations the second
\* fails at its second statement, after the first one was committed.
FailureIsolationWitness ==
    \E p \in callers :
        /\ pc[p] = "done"
        /\ call[p].dir = "Up"
        /\ err[p] = "stmt"
        /\ Len(plan[p]) = 3
        /\ pos[p] = 2
        /\ Len(tx[p].done) = 1
        /\ records = { plan[p][1].Migration.Id }

\* The definitions of the source.
SourceDefs == { source[i] : i \in 1..Len(source) }

\* The caller is before or inside PlanMigration: its next step is one of
\* PlanMigration.
InPlanMigration(p) == pc[p] \in { "idle", "done", "find", "select" }

\* The caller has a plan: PlanMigration returned one to its invocation.
Planned(p) == ~InPlanMigration(p) \/ (pc[p] = "done" /\ err[p] # "plan")

\* The source was not in ascending order of id when the caller's invocation
\* started.
Unsorted(p) ==
    \E i \in 1..(Len(start[p].source) - 1) :
        StringLess(start[p].source[i + 1].Id, start[p].source[i].Id)

\* The definitions whose id is greater than every id of rows: those after
\* the newest record, all of them when there is no record.
After(rows) == { d \in SourceDefs : \A r \in rows : StringLess(r, d.Id) }

\* The definitions whose id is at most some id of rows: those up to and
\* including the newest record, none when there is no record.
UpTo(rows) == { d \in SourceDefs : \E r \in rows : StringLeq(d.Id, r) }

\* C4: forward planning. The plan of an uncapped Up is exactly the
\* definitions with an id greater than the newest record read at its start,
\* in ascending order of id, each with its Up list as Queries; with no
\* record it is every definition.
ForwardPlanning ==
    \A p \in callers :
        (Planned(p) /\ call[p].dir = "Up" /\ call[p].max <= 0) =>
            LET pl == plan[p]
            IN /\ { pl[i].Migration : i \in 1..Len(pl) } = After(start[p].records)
               /\ Len(pl) = Cardinality(After(start[p].records))
               /\ \A i \in 1..(Len(pl) - 1) :
                     StringLess(pl[i].Migration.Id, pl[i + 1].Migration.Id)
               /\ \A i \in 1..Len(pl) : pl[i].Queries = pl[i].Migration.Up
               /\ start[p].records = {} => Len(pl) = Len(source)

\* C4 witness: three definitions held out of order, one record, and an
\* uncapped Up that planned the other two.
ForwardPlanningWitness ==
    \E p \in callers :
        /\ pc[p] = "loop"
        /\ call[p].dir = "Up"
        /\ call[p].max <= 0
        /\ Len(source) = 3
        /\ Unsorted(p)
        /\ source = SortById(start[p].source)
        /\ Cardinality(start[p].records) = 1
        /\ Len(plan[p]) = 2

\* C5: reverse planning. The plan of an uncapped Down is exactly the
\* definitions with an id at most the newest record read at its start, in
\* descending order of id, each with its Down list as Queries; with no
\* record it is empty.
ReversePlanning ==
    \A p \in callers :
        (Planned(p) /\ call[p].dir = "Down" /\ call[p].max <= 0) =>
            LET pl == plan[p]
            IN /\ { pl[i].Migration : i \in 1..Len(pl) } = UpTo(start[p].records)
               /\ Len(pl) = Cardinality(UpTo(start[p].records))
               /\ \A i \in 1..(Len(pl) - 1) :
                     StringLess(pl[i + 1].Migration.Id, pl[i].Migration.Id)
               /\ \A i \in 1..Len(pl) : pl[i].Queries = pl[i].Migration.Down
               /\ start[p].records = {} => pl = << >>

\* C5 witness: three definitions held out of order, two records, and an
\* uncapped Down that planned those two.
ReversePlanningWitness ==
    \E p \in callers :
        /\ pc[p] = "loop"
        /\ call[p].dir = "Down"
        /\ call[p].max <= 0
        /\ Len(source) = 3
        /\ Unsorted(p)
        /\ source = SortById(start[p].source)
        /\ Cardinality(start[p].records) = 2
        /\ Len(plan[p]) = 2

\* C6: cap semantics. With n definitions to apply (those after the newest
\* record for Up, those up to it for Down), the plan has min(max, n) entries
\* when max > 0 and n entries when max <= 0, and its i-th entry is the one
\* with exactly i-1 of the n before it: smaller ids first for Up, larger
\* ids first for Down.
CapSemantics ==
    \A p \in callers :
        Planned(p) =>
            LET pl == plan[p]
                up == call[p].dir = "Up"
                pending == IF up THEN After(start[p].records)
                           ELSE UpTo(start[p].records)
                n == Cardinality(pending)
                want == IF call[p].max > 0 /\ call[p].max < n THEN call[p].max ELSE n
            IN /\ Len(pl) = want
               /\ \A i \in 1..Len(pl) :
                     /\ pl[i].Migration \in pending
                     /\ Cardinality({ d \in pending :
                            IF up THEN StringLess(d.Id, pl[i].Migration.Id)
                            ELSE StringLess(pl[i].Migration.Id, d.Id) }) = i - 1

\* C6 witness: a Down with max 2 and three records: the plan is the two
\* newest of the three.
CapSemanticsWitness ==
    \E p \in callers :
        /\ pc[p] = "loop"
        /\ call[p].dir = "Down"
        /\ call[p].max = 2
        /\ Cardinality(start[p].records) = 3
        /\ Len(plan[p]) = 2

\* C7: idempotence. An ExecMax(Up) that directly follows an uncapped
\* ExecMax(Up) which returned no error plans no migration, begins no
\* transaction, counts 0 and leaves the ledger as it found it.
UpIsIdempotent ==
    \A p \in callers :
        (call[p].dir = "Up" /\ prev[p].dir = "Up" /\ ~prev[p].capped) =>
            /\ plan[p] = << >>
            /\ begun[p] = {}
            /\ applied[p] = 0
            /\ records = start[p].records

\* C7 witness: a second Up has returned nil after an uncapped Up that
\* applied three migrations.
UpIsIdempotentWitness ==
    \E p \in callers :
        /\ pc[p] = "done"
        /\ err[p] = "none"
        /\ call[p].dir = "Up"
        /\ prev[p].dir = "Up"
        /\ ~prev[p].capped
        /\ prev[p].records = {}
        /\ Cardinality(records) = 3

\* C8 (as claimed): an ExecMax(Down) that returns no error, directly after
\* an ExecMax(Up) that returned no error, leaves the ledger as it was before
\* the Up.
RoundTrip ==
    \A p \in callers :
        (pc[p] = "done" /\ err[p] = "none" /\ call[p].dir = "Down"
            /\ prev[p].dir = "Up") =>
            records = prev[p].records

\* C8 (amended): an uncapped ExecMax(Down) that returns no error, directly
\* after an ExecMax(Up) that started from an empty ledger and returned no
\* error, leaves the ledger as it was before the Up: without records.
RoundTripFromEmpty ==
    \A p \in callers :
        (pc[p] = "done" /\ err[p] = "none" /\ call[p].dir = "Down"
            /\ call[p].max <= 0 /\ prev[p].dir = "Up"
            /\ prev[p].records = {}) =>
            /\ records = prev[p].records
            /\ records = {}

\* C8 witness: an uncapped Down has returned nil after reverting the three
\* migrations an Up applied to an empty ledger.
RoundTripWitness ==
    \E p \in callers :
        /\ pc[p] = "done"
        /\ err[p] = "none"
        /\ call[p].dir = "Down"
        /\ call[p].max <= 0
        /\ prev[p].dir = "Up"
        /\ prev[p].records = {}
        /\ Cardinality(start[p].records) = 3
        /\ applied[p] = 3

\* C9: ledger invariant. A record exists for an id exactly when the last
\* committed transaction of that migration was an Up that ran all its up
\* statements: the up statements are committed and no Down of the id was
\* committed since. A record inserted or deleted in any other way would
\* break the equivalence.
LedgerInvariant ==
    \A id \in IdPool :
        /\ (id \in records) = (schema[id].dir = "Up")
        /\ id \in records => schema[id].done = MigrationOf(id).Up
        /\ id \in records => id \in SourceIds

\* C9 witness: after Ups and Downs with failures, one migration is recorded,
\* one was applied and reverted, and a commit has just failed.
LedgerInvariantWitness ==
    \E p \in callers :
        /\ pc[p] = "done"
        /\ err[p] = "commit"
        /\ call[p].dir = "Up"
        /\ tx[p].write = "insert"
        /\ Cardinality(records) = 1
        /\ \E id \in IdPool : schema[id].dir = "Down"

\* C10: prefix invariant. The ids of the ledger are ids of definitions, and
\* with an id the ledger holds every smaller id of a definition.
PrefixInvariant ==
    /\ records \subseteq SourceIds
    /\ \A r \in records :
          \A id \in SourceIds : StringLess(id, r) => id \in records

\* C10 witness: a capped Down reverted the newest of three applied
\* migrations and failed on the next one: two records are left.
PrefixInvariantWitness ==
    \E p \in callers :
        /\ pc[p] = "done"
        /\ call[p].dir = "Down"
        /\ call[p].max = 2
        /\ err[p] = "stmt"
        /\ applied[p] = 1
        /\ Cardinality(start[p].records) = 3
        /\ Cardinality(records) = 2

\* The positions of the caller's plan whose migration was committed in the
\* direction of the invocation since the invocation started.
CommittedPositions(p) ==
    { i \in 1..Len(plan[p]) :
        LET id == plan[p][i].Migration.Id
        IN /\ schema[id] = [dir |-> call[p].dir, done |-> plan[p][i].Queries]
           /\ start[p].schema[id].dir # call[p].dir }

\* C11: the count returned. When ExecMax has returned, on any path, applied
\* is the number of planned migrations whose transaction was committed in
\* the invocation, which is the number of records the ledger gained (Up) or
\* lost (Down); a rolled back or failed transaction is not counted, 0 is
\* returned when planning failed, and max > 0 is not exceeded.
CountIsCommitted ==
    \A p \in callers :
        pc[p] = "done" =>
            /\ applied[p] = Cardinality(CommittedPositions(p))
            /\ applied[p] = IF call[p].dir = "Up"
                            THEN Cardinality(records \ start[p].records)
                            ELSE Cardinality(start[p].records \ records)
            /\ tx[p].state \in { "rolledback", "failed", "open" } =>
                  pos[p] \notin CommittedPositions(p)
            /\ err[p] = "plan" => applied[p] = 0
            /\ call[p].max > 0 => applied[p] <= call[p].max

\* C11 witness: an Up capped at 2 committed one migration and returned the
\* error of the commit of the second.
CountIsCommittedWitness ==
    \E p \in callers :
        /\ pc[p] = "done"
        /\ call[p].dir = "Up"
        /\ call[p].max = 2
        /\ err[p] = "commit"
        /\ applied[p] = 1
        /\ Len(plan[p]) = 2

\* C13: commit failure. When ExecMax returns because the commit of the
\* migration at position k failed, Begin was called for positions 1..k and
\* no other, the count is k-1, the transaction committed nothing, and the
\* records and statements of positions 1..k-1 are the committed ones while
\* those of positions k and later are as the invocation found them.
CommitFailureStops ==
    \A p \in callers :
        (pc[p] = "done" /\ err[p] = "commit") =>
            LET k == pos[p]
                up == call[p].dir = "Up"
            IN /\ k \in 1..Len(plan[p])
               /\ tx[p].state = "failed"
               /\ begun[p] = 1..k
               /\ applied[p] = k - 1
               /\ records = IF up
                            THEN start[p].records \cup PlannedIds(plan[p], k - 1)
                            ELSE start[p].records \ PlannedIds(plan[p], k - 1)
               /\ \A i \in 1..(k - 1) :
                     /\ schema[plan[p][i].Migration.Id] =
                           [dir |-> call[p].dir, done |-> plan[p][i].Queries]
                     /\ (plan[p][i].Migration.Id \in records) = up
               /\ \A i \in k..Len(plan[p]) :
                     /\ schema[plan[p][i].Migration.Id] =
                           start[p].schema[plan[p][i].Migration.Id]
                     /\ (plan[p][i].Migration.Id \in records) =
                           (plan[p][i].Migration.Id \in start[p].records)

\* C13 witness: of three planned migrations of an Up the first two were
\* committed and the commit of the third failed.
CommitFailureStopsWitness ==
    \E p \in callers :
        /\ pc[p] = "done"
        /\ err[p] = "commit"
        /\ call[p].dir = "Up"
        /\ Len(plan[p]) = 3
        /\ pos[p] = 3
        /\ Cardinality(records) = 2

\* The errors ExecMax returns from inside its loop.
LoopErrors == { "begin", "stmt", "ledger", "commit" }

\* C12: resumability. (1) When ExecMax(Up) has returned an error at the
\* migration mk, the ledger holds exactly the definitions before mk, so its
\* newest record is mk-1 (none when mk is the first definition), and the
\* plan an uncapped ExecMax(Up) makes from this state is mk and every later
\* definition, mk first. (2) No transaction runs the up statements of a
\* migration whose up statements are committed and not reverted. (3) An
\* uncapped ExecMax(Up) that returns no error leaves every definition
\* recorded.
Resumability ==
    \A p \in callers :
        /\ (pc[p] = "done" /\ call[p].dir = "Up" /\ err[p] \in LoopErrors) =>
              /\ pos[p] \in 1..Len(plan[p])
              /\ LET mk == Current(p).Migration
                     again == PlanOf(source, records, "Up", 0)
                 IN /\ records = { id \in SourceIds : StringLess(id, mk.Id) }
                    /\ \A id \in SourceIds :
                          StringLess(id, mk.Id) =>
                             StringLeq(id, NewestRecordId(records))
                    /\ Len(again) >= 1
                    /\ again[1].Migration = mk
                    /\ { again[i].Migration : i \in 1..Len(again) } =
                          { d \in SourceDefs : StringLeq(mk.Id, d.Id) }
        /\ (pc[p] \in { "stmt", "commit" } /\ call[p].dir = "Up") =>
              schema[Current(p).Migration.Id].dir # "Up"
        /\ (pc[p] = "done" /\ call[p].dir = "Up" /\ err[p] = "none"
               /\ call[p].max <= 0) =>
              records = SourceIds

\* C12 witness: an Up stopped with an error after its first migration, and
\* the uncapped Up that followed returned nil with all three definitions
\* recorded.
ResumabilityWitness ==
    \E p \in callers :
        /\ pc[p] = "done"
        /\ err[p] = "none"
        /\ call[p].dir = "Up"
        /\ call[p].max <= 0
        /\ prev[p].dir = "None"
        /\ Cardinality(start[p].records) = 1
        /\ applied[p] = 2
        /\ Cardinality(records) = 3

\* C14 (as claimed): planning is a dry run. A step in which a caller's
\* PlanMigration runs (the caller is not inside the loop of ExecMax) leaves
\* the datastore as it is: the ledger table, its records and the schema.
PlanIsDryRun ==
    [][\A p \in callers :
          InPlanMigration(p) => datastore' = datastore]_vars

\* C14 (amended): PlanMigration changes no record of the ledger and nothing
\* of the schema, for either direction and any cap; it does not remove the
\* ledger table, and when it returns a plan the table exists (it creates
\* the table if it is missing).
PlanKeepsRecords ==
    [][\A p \in callers :
          InPlanMigration(p) =>
              /\ records' = records
              /\ schema' = schema
              /\ tableExists => tableExists'
              /\ pc'[p] = "loop" => tableExists']_vars

\* C14 witness: PlanMigration has just returned the plan of a Down capped
\* at 1 over a ledger of two records.
PlanKeepsRecordsWitness ==
    \E p \in callers :
        /\ pc[p] = "loop"
        /\ pos[p] = 1
        /\ begun[p] = {}
        /\ call[p].dir = "Down"
        /\ call[p].max = 1
        /\ Len(plan[p]) = 1
        /\ Cardinality(records) = 2
        /\ records = start[p].records

\* The watermark the caller's PlanMigration read: the newest record when
\* SelectOne ran, the empty string when there was none.
Watermark(p) == NewestRecordId(start[p].records)

\* C15: cursor location for an arbitrary watermark. Over the sorted
\* definitions the cursor is the greatest index whose id is at most the
\* watermark, -1 when there is none and whenever the watermark is empty,
\* whether or not the watermark is the id of a definition; the uncapped Up
\* plan is exactly the definitions with an id above the watermark and the
\* uncapped Down plan exactly those with an id at most the watermark.
CursorLocation ==
    \A p \in callers :
        Planned(p) =>
            LET sorted == SortById(source)
                w == Watermark(p)
                cursor == Cursor(sorted, w, -1)
                atMost == { i \in 0..(Len(sorted) - 1) : StringLeq(sorted[i + 1].Id, w) }
                pl == plan[p]
                planned == { pl[i].Migration : i \in 1..Len(pl) }
            IN /\ atMost = {} => cursor = -1
               /\ atMost # {} => cursor \in atMost /\ \A i \in atMost : i <= cursor
               /\ w = << >> => cursor = -1
               /\ (call[p].dir = "Up" /\ call[p].max <= 0) =>
                     /\ planned = { d \in SourceDefs : StringLess(w, d.Id) }
                     /\ Len(pl) = Len(sorted) - (cursor + 1)
               /\ (call[p].dir = "Down" /\ call[p].max <= 0) =>
                     /\ planned = { d \in SourceDefs : StringLeq(d.Id, w) }
                     /\ Len(pl) = cursor + 1

\* C15 witness: the watermark is the id of no definition and lies between
\* two definitions, and an uncapped Down planned the one below it.
CursorLocationWitness ==
    \E p \in callers :
        /\ pc[p] = "loop"
        /\ call[p].dir = "Down"
        /\ call[p].max <= 0
        /\ Watermark(p) # << >>
        /\ Watermark(p) \notin SourceIds
        /\ \E d \in SourceDefs : StringLess(d.Id, Watermark(p))
        /\ \E d \in SourceDefs : StringLess(Watermark(p), d.Id)
        /\ Len(plan[p]) = 1

\* The gaps of rows: the definitions without a record whose id is below the
\* id of some record.
Gaps(rows) ==
    { d \in SourceDefs : d.Id \notin rows /\ \E r \in rows : StringLess(d.Id, r) }

\* C16: watermark-only planning. The plan is the one the newest record
\* alone gives, whatever the other records are, and no Up plan, capped or
\* not, holds a definition that is a gap of the records read at its start.
WatermarkOnlyPlanning ==
    \A p \in callers :
        Planned(p) =>
            LET rows == start[p].records
                pl == plan[p]
            IN /\ rows # {} =>
                     pl = PlanOf(source, { MaxId(rows) }, call[p].dir, call[p].max)
               /\ call[p].dir = "Up" =>
                     \A i \in 1..Len(pl) : pl[i].Migration \notin Gaps(rows)

\* C16 witness: an Up that started with a gap below the newest record has
\* returned after applying a definition above it, and the gap is still
\* without a record.
WatermarkOnlyPlanningWitness ==
    \E p \in callers :
        /\ pc[p] = "done"
        /\ call[p].dir = "Up"
        /\ err[p] = "none"
        /\ applied[p] >= 1
        /\ Gaps(start[p].records) # {}
        /\ Gaps(records) = Gaps(start[p].records)

\* The caller is at the write of the ledger record: every statement of the
\* current migration is executed and trans.Insert or trans.Delete is next.
AtLedgerWrite(p) ==
    /\ pc[p] = "stmt"
    /\ Len(tx[p].done) = Len(Current(p).Queries)

\* C18: a single caller's Up never inserts an id the ledger holds. Every id
\* of an Up plan is greater than every id in the ledger when the plan was
\* made, the planned ids are in strictly ascending order (so pairwise
\* distinct), the records the invocation has added are the ids of the plan
\* before the current position, and the id about to be inserted, or
\* inserted and awaiting commit, is not in the ledger.
NoDuplicateInsert ==
    \A p \in callers :
        (Planned(p) /\ call[p].dir = "Up") =>
            LET pl == plan[p]
            IN /\ \A i \in 1..Len(pl) : \A r \in start[p].records :
                     StringLess(r, pl[i].Migration.Id)
               /\ \A i \in 1..(Len(pl) - 1) :
                     StringLess(pl[i].Migration.Id, pl[i + 1].Migration.Id)
               /\ records \ start[p].records = PlannedIds(pl, applied[p])
               /\ (AtLedgerWrite(p) \/ pc[p] = "commit") =>
                     Current(p).Migration.Id \notin records

\* C18 witness: on a ledger that held records when the plan was made, an Up
\* has committed its first migration and is at the insert of its second.
NoDuplicateInsertWitness ==
    \E p \in callers :
        /\ call[p].dir = "Up"
        /\ AtLedgerWrite(p)
        /\ pos[p] = 2
        /\ applied[p] = 1
        /\ start[p].records # {}
        /\ Cardinality(records) = Cardinality(start[p].records) + 1

\* C19: Down commits and counts planned definitions without a record. When
\* a Down has returned without error, every planned definition, with or
\* without a record at the start, has its Down list committed and is
\* counted; the delete of an id without a record removes nothing, so the
\* records removed are the planned ids that had one, at most the count.
DownCountsUnrecorded ==
    \A p \in callers :
        (pc[p] = "done" /\ call[p].dir = "Down" /\ err[p] = "none") =>
            LET pl == plan[p]
                ids == PlannedIds(pl, Len(pl))
            IN /\ applied[p] = Len(pl)
               /\ \A i \in 1..Len(pl) :
                     /\ StringLeq(pl[i].Migration.Id, Watermark(p))
                     /\ schema[pl[i].Migration.Id] =
                           [dir |-> "Down", done |-> pl[i].Migration.Down]
               /\ records = start[p].records \ ids
               /\ start[p].records \ records = ids \cap start[p].records
               /\ applied[p] >= Cardinality(start[p].records \ records)

\* C19 witness: a Down has returned a count of 2 although only one record
\* was deleted: one of the two planned definitions had no record.
DownCountsUnrecordedWitness ==
    \E p \in callers :
        /\ pc[p] = "done"
        /\ call[p].dir = "Down"
        /\ err[p] = "none"
        /\ applied[p] = 2
        /\ Cardinality(start[p].records \ records) = 1
        /\ \E i \in 1..Len(plan[p]) :
              /\ plan[p][i].Migration.Id \notin start[p].records
              /\ plan[p][i].Queries # << >>
              /\ schema[plan[p][i].Migration.Id].done = plan[p][i].Queries

\* The caller has executed every statement of the migration with this id in
\* the transaction it has begun for it.
Executed(p, id) ==
    /\ pc[p] \in { "stmt", "commit" }
    /\ Current(p).Migration.Id = id
    /\ tx[p].done = Current(p).Queries

\* C17: no lock coordinates callers. A caller that has not started can
\* plan whatever the other caller is in the middle of; two callers that
\* read the same watermark plan the same first migration; and of the
\* callers that attempt the same migration at most one commits its record:
\* once the record is committed the other's insert cannot succeed.
NoLockBetweenCallers ==
    /\ \A p \in callers :
          /\ pc[p] = "idle" => ENABLED CreateTablesIfNotExists(p, "Up", 0)
          /\ pc[p] = "find" => ENABLED FindMigrations(p)
          /\ pc[p] = "select" => ENABLED SelectOne(p)
    /\ \A p \in callers : \A q \in callers :
          (Planned(p) /\ Planned(q) /\ Watermark(p) = Watermark(q)
             /\ plan[p] # << >>) =>
                plan[q] # << >> /\ plan[q][1] = plan[p][1]
    /\ \A id \in IdPool :
          Cardinality({ p \in callers : id \in PlannedIds(plan[p], applied[p]) }) <= 1
    /\ \A p \in callers :
          (AtLedgerWrite(p) /\ Current(p).Migration.Id \in records) =>
             ~ENABLED Insert(p)

\* C17 witness: both callers read the empty ledger and planned the same
\* migration; one has committed it, the other has executed its up
\* statements too and is at the insert of the record the ledger now holds.
NoLockBetweenCallersWitness ==
    \E p \in callers : \E q \in callers \ { p } :
        /\ start[p].records = {}
        /\ start[q].records = {}
        /\ applied[q] = 1
        /\ AtLedgerWrite(p)
        /\ pos[p] = 1
        /\ Executed(p, plan[q][1].Migration.Id)
        /\ tx[p].done # << >>
        /\ schema[Current(p).Migration.Id].done = tx[p].done
        /\ Current(p).Migration.Id \in records

====
